---------------------------- MODULE Spec2Model ----------------------------
(* Model of app.py: the command-line driver that lists an S3 bucket, lets  *)
(* the user pick a dataset, downloads and parses it, lets the user pick a  *)
(* column and a plot type, and renders one chart (visualize_data).         *)
(*                                                                         *)
(* Text is modelled as sequences of one-character strings, so that int()   *)
(* parsing, str.lower() and base64 encoding are computed, not assumed.     *)
EXTENDS Integers, Sequences, FiniteSets, TLC

VARIABLES
    pc,                 \* position of the driver in the script
    files,              \* result of list_files_in_s3_bucket
    selected_file,      \* the key chosen in the dataset loop
    local_path,         \* return value of download_file_from_s3
    df,                 \* the parsed table (its ordered column names)
    selected_column,    \* the column chosen in the column loop
    plot_type,          \* the lowercased plot-type token
    image_data,         \* return value of visualize_data
    line,               \* the line most recently returned by input()
    console,            \* everything written so far, each line with its stream
    fs,                 \* files of the output directory: name -> bytes
    figures,            \* number of open matplotlib figures
    branch,             \* draw branch taken by the last visualize_data call
    exitCode,           \* process exit status, meaningful when pc = "exited"
    uncaught,           \* exception that ended the process, "" when none
    trace,              \* the driver's steps, in the order they happened
    calls               \* number of visualize_data calls so far

vars == <<pc, files, selected_file, local_path, df,
          selected_column, plot_type, image_data, line,
          console, fs, figures, branch, exitCode, uncaught, trace, calls>>

-----------------------------------------------------------------------------
(* Bounds of the model.                                                    *)

MaxFiles == 2       \* keys in a bucket listing
MaxCols == 2        \* columns of a parsed table
MaxInvalid == 2     \* rejected inputs in one run
MaxUpper == 1       \* leading letters of a plot-type token that may be upper case
MaxImageLen == 3    \* bytes of a rendered image
MaxCalls == 2       \* visualize_data calls in the repeated-render specification

-----------------------------------------------------------------------------
(* Text helpers.                                                           *)

Max(a, b) == IF a > b THEN a ELSE b

Digits == <<"0", "1", "2", "3", "4", "5", "6", "7", "8", "9">>

LowerLetters == <<"a", "b", "c", "d", "e", "f", "g", "h", "i", "j", "k", "l", "m",
                  "n", "o", "p", "q", "r", "s", "t", "u", "v", "w", "x", "y", "z">>

UpperLetters == <<"A", "B", "C", "D", "E", "F", "G", "H", "I", "J", "K", "L", "M",
                  "N", "O", "P", "Q", "R", "S", "T", "U", "V", "W", "X", "Y", "Z">>

IsDigit(c) == \E d \in DOMAIN Digits : Digits[d] = c

DigitVal(c) == (CHOOSE d \in DOMAIN Digits : Digits[d] = c) - 1

IsSpace(c) == c = " "

RECURSIVE lstrip(_)
lstrip(s) == IF s # <<>> /\ IsSpace(Head(s)) THEN lstrip(Tail(s)) ELSE s

RECURSIVE rstrip(_)
rstrip(s) ==
    IF s # <<>> /\ IsSpace(s[Len(s)]) THEN rstrip(SubSeq(s, 1, Len(s) - 1)) ELSE s

strip(s) == rstrip(lstrip(s))

\* The digits part of an integer literal: digits, with single underscores
\* allowed between digits.
ValidDigits(b) ==
    /\ b # <<>>
    /\ IsDigit(b[1])
    /\ IsDigit(b[Len(b)])
    /\ \A i \in DOMAIN b : IsDigit(b[i]) \/ b[i] = "_"
    /\ \A i \in 1..(Len(b) - 1) : ~(b[i] = "_" /\ b[i + 1] = "_")

Unsigned(t) == IF t # <<>> /\ Head(t) \in {"+", "-"} THEN Tail(t) ELSE t

RECURSIVE DigitsValue(_, _)
DigitsValue(b, acc) ==
    IF b = <<>> THEN acc
    ELSE IF Head(b) = "_" THEN DigitsValue(Tail(b), acc)
    ELSE DigitsValue(Tail(b), 10 * acc + DigitVal(Head(b)))

\* int(s) raises ValueError exactly when this is FALSE.
int_ok(s) == ValidDigits(Unsigned(strip(s)))

\* int(s), for a string int() accepts.
int(s) ==
    LET t == strip(s)
        v == DigitsValue(Unsigned(t), 0)
    IN  IF Head(t) = "-" THEN 0 - v ELSE v

\* str.lower(), character by character.
lower_char(c) ==
    IF \E i \in DOMAIN UpperLetters : UpperLetters[i] = c
    THEN LowerLetters[CHOOSE i \in DOMAIN UpperLetters : UpperLetters[i] = c]
    ELSE c

\* Mutant of lower: the .lower() call is left out.
lower_left_out(s) == s

\* s.lower()
lower(s) == [i \in DOMAIN s |-> lower_char(s[i])]

upper_char(c) ==
    IF \E i \in DOMAIN LowerLetters : LowerLetters[i] = c
    THEN UpperLetters[CHOOSE i \in DOMAIN LowerLetters : LowerLetters[i] = c]
    ELSE c

\* Decimal text of an integer, as a user would type it.
RECURSIVE NatStr(_)
NatStr(n) ==
    IF n < 10 THEN <<Digits[n + 1]>> ELSE NatStr(n \div 10) \o <<Digits[(n % 10) + 1]>>

IntStr(k) == IF k < 0 THEN <<"-">> \o NatStr(0 - k) ELSE NatStr(k)

-----------------------------------------------------------------------------
(* Python sequence indexing: files[k], df.columns[k].                      *)

\* seq[k] raises IndexError exactly when this is FALSE: a negative index
\* counts from the end of the sequence.
index_ok(seq, k) == (0 - Len(seq)) <= k /\ k < Len(seq)

getitem(seq, k) == IF k >= 0 THEN seq[k + 1] ELSE seq[Len(seq) + k + 1]

-----------------------------------------------------------------------------
(* base64.b64encode(...).decode('utf-8'), computed on byte sequences.      *)

B64Alphabet == <<"A", "B", "C", "D", "E", "F", "G", "H", "I", "J", "K", "L", "M",
                 "N", "O", "P", "Q", "R", "S", "T", "U", "V", "W", "X", "Y", "Z",
                 "a", "b", "c", "d", "e", "f", "g", "h", "i", "j", "k", "l", "m",
                 "n", "o", "p", "q", "r", "s", "t", "u", "v", "w", "x", "y", "z",
                 "0", "1", "2", "3", "4", "5", "6", "7", "8", "9", "+", "/">>

B64Char(v) == B64Alphabet[v + 1]

B64Val(c) == (CHOOSE i \in DOMAIN B64Alphabet : B64Alphabet[i] = c) - 1

RECURSIVE b64encode(_)
b64encode(b) ==
    IF Len(b) = 0 THEN <<>>
    ELSE IF Len(b) = 1 THEN
        <<B64Char(b[1] \div 4), B64Char((b[1] % 4) * 16), "=", "=">>
    ELSE IF Len(b) = 2 THEN
        <<B64Char(b[1] \div 4), B64Char((b[1] % 4) * 16 + b[2] \div 16),
          B64Char((b[2] % 16) * 4), "=">>
    ELSE
        <<B64Char(b[1] \div 4), B64Char((b[1] % 4) * 16 + b[2] \div 16),
          B64Char((b[2] % 16) * 4 + b[3] \div 64), B64Char(b[3] % 64)>>
        \o b64encode(SubSeq(b, 4, Len(b)))

\* The inverse, used only to state what a returned string encodes.
RECURSIVE b64decode(_)
b64decode(t) ==
    IF Len(t) = 0 THEN <<>>
    ELSE
        LET v1 == B64Val(t[1])
            v2 == B64Val(t[2])
            rest == b64decode(SubSeq(t, 5, Len(t)))
        IN  IF t[3] = "=" THEN <<v1 * 4 + v2 \div 16>>
            ELSE IF t[4] = "=" THEN
                <<v1 * 4 + v2 \div 16, (v2 % 16) * 16 + B64Val(t[3]) \div 4>>
            ELSE
                <<v1 * 4 + v2 \div 16, (v2 % 16) * 16 + B64Val(t[3]) \div 4,
                  (B64Val(t[3]) % 4) * 64 + B64Val(t[4])>> \o rest

-----------------------------------------------------------------------------
(* The environment: bucket contents, tables, console input, images.        *)

\* The elements of pool whose positions are in S, in pool order.
Pick(pool, S) ==
    [i \in 1..Cardinality(S) |->
        pool[CHOOSE j \in S : Cardinality({k \in S : k < j}) = i - 1]]

\* Object keys, as path components, in the order S3 lists them.
KeyPool == << <<"a.csv">>, <<"b.csv">>, <<"raw", "c.csv">> >>

Listings ==
    {Pick(KeyPool, S) : S \in {T \in SUBSET DOMAIN KeyPool :
                                   Cardinality(T) \in 1..MaxFiles}}

ColumnPool == <<"date", "sales", "units">>

Tables ==
    {[columns |-> Pick(ColumnPool, S)] :
        S \in {T \in SUBSET DOMAIN ColumnPool : Cardinality(T) \in 1..MaxCols}}

NumRange ==
    (0 - (Max(MaxFiles, MaxCols) + 1))..(Max(MaxFiles, MaxCols) + 1)

\* Lines typed at a number prompt: integers, integers int() accepts in
\* other spellings, and lines int() rejects.
NumberTokens ==
    {IntStr(k) : k \in NumRange}
    \cup {<<" ", "1", " ">>, <<"+", "1">>, <<"0", "1">>, <<"1", "_", "0">>}
    \cup {<<>>, <<"x">>, <<"-">>, <<"1", ".", "0">>, <<"1", " ", "1">>,
          <<"_", "1">>, <<"1", "_">>}

scatter == <<"s", "c", "a", "t", "t", "e", "r">>
plot_line == <<"l", "i", "n", "e">>
hist == <<"h", "i", "s", "t">>
bar == <<"b", "a", "r">>
pie == <<"p", "i", "e">>

\* ['scatter', 'line', 'hist', 'bar', 'pie']
PlotTypes == {scatter, plot_line, hist, bar, pie}

CaseVariants(tag) ==
    {[i \in DOMAIN tag |-> IF i \in U THEN upper_char(tag[i]) ELSE tag[i]] :
        U \in SUBSET (1..MaxUpper)}
    \cup {[i \in DOMAIN tag |-> upper_char(tag[i])]}

\* Lines typed at the plot-type prompt.
PlotTokens ==
    UNION {CaseVariants(tag) : tag \in PlotTypes}
    \cup {<<>>, <<"x">>, <<"3">>, <<"P", "I">>, <<" ">> \o pie,
          plot_line \o <<" ">>, bar \o <<"s">>}

\* Images the rendering engine may write: a PNG starts with byte 137.
RECURSIVE ByteSeqs(_)
ByteSeqs(n) ==
    IF n = 0 THEN {<<>>}
    ELSE {<<x>> \o s : x \in {0, 255}, s \in ByteSeqs(n - 1)}

Images == {<<137>> \o s : s \in UNION {ByteSeqs(n) : n \in 0..(MaxImageLen - 1)}}

\* Content of a downloaded object; the driver never looks at it.
ObjectBody == <<100, 97, 116, 97>>

OUTPUT_DIR == "/home/ec2-user/AWS_S3_FILES/"

-----------------------------------------------------------------------------
(* Console, files and process termination.                                 *)

\* print(...): one more line on the standard output stream.
print(con, kind, num, text) ==
    Append(con, [stream |-> "stdout", kind |-> kind, num |-> num, text |-> text])

\* for i, x in enumerate(seq, start=1): print(f"{i}. {x}")
RECURSIVE print_numbered(_, _, _, _)
print_numbered(con, kind, seq, i) ==
    IF i > Len(seq) THEN con
    ELSE print_numbered(print(con, kind, i, seq[i]), kind, seq, i + 1)

\* What line 110, line 130 and line 135 print.
IsInvalidMessage(m) == m.kind \in {"invalid_selection", "invalid_plot_type"}

InvalidCount == Cardinality({i \in DOMAIN console : IsInvalidMessage(console[i])})

\* line holds this after input() raised EOFError instead of returning.
EndOfInput == <<"<EOF>">>

\* os.path.basename(file_key), os.path.join(dir, name)
basename(key) == key[Len(key)]

join(dir, name) == <<dir, name>>

\* The directory after `name` was written: an existing file is replaced.
write_file(dir, name, data) ==
    [n \in DOMAIN dir \cup {name} |-> IF n = name THEN data ELSE dir[n]]

\* An exception nobody catches ends the interpreter with status 1.
Die(e) ==
    /\ pc' = "exited"
    /\ exitCode' = 1
    /\ uncaught' = e

\* sys.exit(code)
sys_exit(code) ==
    /\ pc' = "exited"
    /\ exitCode' = code
    /\ uncaught' = ""

Running == UNCHANGED <<exitCode, uncaught>>

-----------------------------------------------------------------------------
(* The driver, lines 90-139.                                               *)

Init ==
    /\ pc = "list"
    /\ files = <<>>
    /\ selected_file = <<>>
    /\ local_path = <<>>
    /\ df = [columns |-> <<>>]
    /\ selected_column = ""
    /\ plot_type = <<>>
    /\ image_data = <<>>
    /\ line = <<>>
    /\ console = <<>>
    /\ fs = <<>>
    /\ figures = 0
    /\ branch = "none"
    /\ exitCode = 0
    /\ uncaught = ""
    /\ trace = <<>>
    /\ calls = 0

\* files = list_files_in_s3_bucket(bucket_name): the listing, or an
\* exception of the client, or KeyError when the response has no 'Contents'.
ListFiles ==
    /\ pc = "list"
    /\ \/ \E listing \in Listings :
            /\ files' = listing
            /\ pc' = "print_datasets"
            /\ trace' = Append(trace, "list")
            /\ Running
       \/ \E e \in {"ClientError", "KeyError"} :
            /\ Die(e)
            /\ UNCHANGED <<files, trace>>
    /\ UNCHANGED <<selected_file, local_path, df,
                   selected_column, plot_type, image_data,
                   line, console, fs, figures, branch, calls>>

PrintDatasets ==
    /\ pc = "print_datasets"
    /\ console' = print_numbered(print(console, "select_dataset", 0, <<>>),
                                 "dataset", files, 1)
    /\ pc' = "dataset"
    /\ UNCHANGED <<files, selected_file, local_path, df,
                   selected_column, plot_type, image_data,
                   line, fs, figures, branch, exitCode, uncaught, trace, calls>>

\* Mutant of DatasetIndex: the 1-based number is used as the index.
DatasetIndexNoOffset(n) == n

\* dataset_selection-1
DatasetIndex(n) == n - 1

\* One pass of the loop of lines 104-110.
SelectDataset ==
    /\ pc = "dataset"
    /\ \/ /\ line' = EndOfInput
          /\ console' = print(console, "prompt_dataset", 0, <<>>)
          /\ Die("EOFError")
          /\ UNCHANGED <<selected_file, trace>>
       \/ \E tok \in NumberTokens :
            /\ line' = tok
            /\ IF ~int_ok(tok) THEN
                    /\ InvalidCount < MaxInvalid
                    /\ console' = print(print(console, "prompt_dataset", 0, <<>>),
                                        "invalid_selection", 0, <<>>)
                    /\ UNCHANGED <<pc, selected_file, trace>>
               ELSE IF ~index_ok(files, DatasetIndex(int(tok))) THEN
                    /\ InvalidCount < MaxInvalid
                    /\ console' = print(print(console, "prompt_dataset", 0, <<>>),
                                        "invalid_selection", 0, <<>>)
                    /\ UNCHANGED <<pc, selected_file, trace>>
               ELSE
                    /\ selected_file' = getitem(files, DatasetIndex(int(tok)))
                    /\ console' = print(console, "prompt_dataset", 0, <<>>)
                    /\ pc' = "download"
                    /\ trace' = Append(trace, "dataset")
            /\ Running
    /\ UNCHANGED <<files, local_path, df, selected_column,
                   plot_type, image_data, fs, figures, branch, calls>>

\* download_file_from_s3, the try branch: the object is written to
\* local_dir/basename(file_key) and the path is returned.
DownloadSucceeds ==
    /\ local_path' = join(OUTPUT_DIR, basename(selected_file))
    /\ fs' = write_file(fs, local_path', ObjectBody)
    /\ console' = print(console, "downloaded", 0, selected_file)
    /\ pc' = "parse"
    /\ Running

\* Mutant of DownloadFails: the error is printed, sys.exit(1) is left out
\* and the function returns None.
DownloadFailsAndReturns ==
    /\ console' = print(console, "download_error", 0, selected_file)
    /\ local_path' = <<>>
    /\ pc' = "parse"
    /\ Running
    /\ UNCHANGED fs

\* download_file_from_s3, the except branch.
DownloadFails ==
    /\ console' = print(console, "download_error", 0, selected_file)
    /\ sys_exit(1)
    /\ UNCHANGED <<local_path, fs>>

\* local_path = download_file_from_s3(bucket_name, selected_file, output_dir)
Download ==
    /\ pc = "download"
    /\ trace' = Append(trace, "download")
    /\ \/ DownloadSucceeds
       \/ DownloadFails
    /\ UNCHANGED <<files, selected_file, df,
                   selected_column, plot_type, image_data,
                   line, figures, branch, calls>>

\* df = pd.read_csv(local_path): a table, or an exception of the parser.
Parse ==
    /\ pc = "parse"
    /\ \/ \E t \in Tables :
            /\ df' = t
            /\ pc' = "print_columns"
            /\ trace' = Append(trace, "parse")
            /\ Running
       \/ /\ Die("ParserError")
          /\ UNCHANGED <<df, trace>>
    /\ UNCHANGED <<files, selected_file, local_path,
                   selected_column, plot_type, image_data,
                   line, console, fs, figures, branch, calls>>

PrintColumns ==
    /\ pc = "print_columns"
    /\ console' = print_numbered(print(console, "select_column", 0, ""),
                                 "column", df.columns, 1)
    /\ pc' = "column"
    /\ UNCHANGED <<files, selected_file, local_path, df,
                   selected_column, plot_type, image_data,
                   line, fs, figures, branch, exitCode, uncaught, trace, calls>>

\* column_selection-1
ColumnIndex(n) == n - 1

\* One pass of the loop of lines 124-130.
SelectColumn ==
    /\ pc = "column"
    /\ \/ /\ line' = EndOfInput
          /\ console' = print(console, "prompt_column", 0, "")
          /\ Die("EOFError")
          /\ UNCHANGED <<selected_column, trace>>
       \/ \E tok \in NumberTokens :
            /\ line' = tok
            /\ IF ~int_ok(tok) THEN
                    /\ InvalidCount < MaxInvalid
                    /\ console' = print(print(console, "prompt_column", 0, ""),
                                        "invalid_selection", 0, "")
                    /\ UNCHANGED <<pc, selected_column, trace>>
               ELSE IF ~index_ok(df.columns, ColumnIndex(int(tok))) THEN
                    /\ InvalidCount < MaxInvalid
                    /\ console' = print(print(console, "prompt_column", 0, ""),
                                        "invalid_selection", 0, "")
                    /\ UNCHANGED <<pc, selected_column, trace>>
               ELSE
                    /\ selected_column' = getitem(df.columns, ColumnIndex(int(tok)))
                    /\ console' = print(console, "prompt_column", 0, "")
                    /\ pc' = "plot_type"
                    /\ trace' = Append(trace, "column")
            /\ Running
    /\ UNCHANGED <<files, selected_file, local_path, df,
                   plot_type, image_data, fs, figures, branch, calls>>

\* Mutant of in_plot_types: an empty answer also ends the loop.
in_plot_types_or_empty(p) == p \in PlotTypes \cup {<<>>}

\* plot_type not in ['scatter', 'line', 'hist', 'bar', 'pie'] is FALSE
in_plot_types(p) == p \in PlotTypes

\* plot_type = input(...).lower(), line 133
ReadPlotType ==
    /\ pc = "plot_type"
    /\ console' = print(console, "prompt_plot_type", 0, "")
    /\ \/ /\ line' = EndOfInput
          /\ Die("EOFError")
          /\ UNCHANGED plot_type
       \/ \E tok \in PlotTokens :
            /\ line' = tok
            /\ plot_type' = lower(tok)
            /\ pc' = "plot_loop"
            /\ Running
    /\ UNCHANGED <<files, selected_file, local_path, df, selected_column,
                   image_data, fs, figures, branch, trace, calls>>

\* The while loop of lines 134-136: its test, and one pass of its body.
PlotTypeLoop ==
    /\ pc = "plot_loop"
    /\ IF in_plot_types(plot_type) THEN
            /\ pc' = "render"
            /\ trace' = Append(trace, "plot_type")
            /\ UNCHANGED <<plot_type, line, console, exitCode, uncaught>>
       ELSE
            /\ InvalidCount < MaxInvalid
            /\ console' = print(print(console, "invalid_plot_type", 0, ""),
                                "prompt_plot_type", 0, "")
            /\ \/ /\ line' = EndOfInput
                  /\ Die("EOFError")
                  /\ UNCHANGED plot_type
               \/ \E tok \in PlotTokens :
                    /\ line' = tok
                    /\ plot_type' = lower(tok)
                    /\ UNCHANGED pc
                    /\ Running
            /\ UNCHANGED trace
    /\ UNCHANGED <<files, selected_file, local_path, df, selected_column,
                   image_data, fs, figures, branch, calls>>

-----------------------------------------------------------------------------
(* visualize_data, lines 42-87.                                            *)

Range(seq) == {seq[i] : i \in DOMAIN seq}

\* The if/elif chain of lines 56-65; "none" when no branch is taken.
Dispatch(ptype) ==
    CASE ptype = scatter -> "scatter"
      [] ptype = plot_line -> "line"
      [] ptype = hist -> "hist"
      [] ptype = bar -> "bar"
      [] ptype = pie -> "pie"
      [] OTHER -> "none"

\* Mutant of OutputFile: every call writes a file of its own.
OutputFileNumbered(output_dir) ==
    join(output_dir, <<"plot.png", "plot_1.png", "plot_2.png", "plot_3.png",
                       "plot_4.png", "plot_5.png">>[calls + 1])

\* output_file = os.path.join(output_dir, 'plot.png')
OutputFile(output_dir) == join(output_dir, "plot.png")

\* One call.  uncaught' is the exception the call raises, "" when it returns;
\* image_data' is the value it returns.
visualize_data(d, output_dir, column, ptype) ==
    /\ calls' = calls + 1
    /\ branch' = Dispatch(ptype)
    /\ \/ \* a draw call raises: df[y_column] is missing, or the engine fails
          /\ Dispatch(ptype) # "none"
          /\ uncaught' = IF column \in Range(d.columns) THEN "DrawError"
                                                         ELSE "KeyError"
          /\ figures' = figures + 1
          /\ UNCHANGED <<fs, console, image_data>>
       \/ \* plt.savefig raises: plt.close() is not reached
          /\ Dispatch(ptype) = "none" \/ column \in Range(d.columns)
          /\ uncaught' = "SaveError"
          /\ figures' = figures + 1
          /\ UNCHANGED <<fs, console, image_data>>
       \/ \* the figure is saved, closed, read back and encoded
          /\ Dispatch(ptype) = "none" \/ column \in Range(d.columns)
          /\ \E img \in Images :
                fs' = write_file(fs, OutputFile(output_dir), img)
          /\ figures' = (figures + 1) - 1
          /\ console' = print(console, "plot_saved", 0, "")
          /\ image_data' = b64encode(fs'[OutputFile(output_dir)])
          /\ uncaught' = ""

\* Mutant of Render: after rendering, the driver asks for another plot type.
RenderThenAskAgain ==
    /\ pc = "render"
    /\ trace' = Append(trace, "render")
    /\ visualize_data(df, OUTPUT_DIR, selected_column, plot_type)
    /\ pc' = "plot_type"
    /\ UNCHANGED <<files, selected_file, local_path, df, selected_column,
                   plot_type, line, exitCode>>

\* image_data = visualize_data(df, output_dir, selected_column, plot_type)
Render ==
    /\ pc = "render"
    /\ trace' = Append(trace, "render")
    /\ visualize_data(df, OUTPUT_DIR, selected_column, plot_type)
    /\ IF uncaught' = "" THEN pc' = "end" /\ UNCHANGED exitCode
                         ELSE pc' = "exited" /\ exitCode' = 1
    /\ UNCHANGED <<files, selected_file, local_path, df, selected_column,
                   plot_type, line>>

\* The script has run to its last line.
Finish ==
    /\ pc = "end"
    /\ sys_exit(0)
    /\ UNCHANGED <<files, selected_file, local_path, df, selected_column,
                   plot_type, image_data, line, console, fs, figures, branch,
                   trace, calls>>

Next ==
    \/ ListFiles
    \/ PrintDatasets
    \/ SelectDataset
    \/ Download
    \/ Parse
    \/ PrintColumns
    \/ SelectColumn
    \/ ReadPlotType
    \/ PlotTypeLoop
    \/ Render
    \/ Finish

Spec == Init /\ [][Next]_vars

-----------------------------------------------------------------------------
(* visualize_data called repeatedly by an importing caller, always with    *)
(* the same output directory.                                              *)

InitRender ==
    /\ pc = "caller"
    /\ files = <<>>
    /\ selected_file = <<>>
    /\ local_path = <<>>
    /\ df \in Tables
    /\ selected_column = ""
    /\ plot_type = <<>>
    /\ image_data = <<>>
    /\ line = <<>>
    /\ console = <<>>
    /\ fs \in {[n \in {} |-> <<>>],
               [n \in {join(OUTPUT_DIR, "plot.png")} |-> <<137>>]}
    /\ figures = 0
    /\ branch = "none"
    /\ exitCode = 0
    /\ uncaught = ""
    /\ trace = <<>>
    /\ calls = 0

CallVisualize ==
    /\ pc = "caller"
    /\ calls < MaxCalls
    /\ \E column \in Range(ColumnPool), ptype \in PlotTypes \cup {<<"x">>} :
            /\ visualize_data(df, OUTPUT_DIR, column, ptype)
            /\ selected_column' = column
            /\ plot_type' = ptype
    /\ UNCHANGED <<pc, files, selected_file, local_path, df, line, exitCode,
                   trace>>

NextRender == CallVisualize

SpecRender == InitRender /\ [][NextRender]_vars

-----------------------------------------------------------------------------
(* What can be observed of a run.                                          *)

LastLine(con) == con[Len(con)]

Printed(kind) == \E i \in DOMAIN console : console[i].kind = kind

\* The except branch of download_file_from_s3 has run.
DownloadFailed == Printed("download_error")

\* The steps of the driver, in script order.
StepOrder ==
    <<"list", "dataset", "download", "parse", "column", "plot_type", "render">>

IsPrefix(s, t) == Len(s) <= Len(t) /\ \A i \in DOMAIN s : s[i] = t[i]

Count(kinds) == Cardinality({i \in DOMAIN console : console[i].kind \in kinds})

\* tok is tag up to the case of its letters.
SameIgnoringCase(tok, tag) ==
    /\ Len(tok) = Len(tag)
    /\ \A i \in DOMAIN tag : tok[i] \in {tag[i], upper_char(tag[i])}

NamesATag(tok) == \E tag \in PlotTypes : SameIgnoringCase(tok, tag)

\* An integer was typed (not end of input, not something int() rejects).
TypedInt(l) == l # EndOfInput /\ int_ok(l)

PlotPath == <<OUTPUT_DIR, "plot.png">>

-----------------------------------------------------------------------------
(* Claims.                                                                 *)

\* C1: at the dataset prompt, for a listing of n >= 1 keys, the integer 0
\* and the integer n+1 are both rejected: the invalid-selection message is
\* printed, no file is selected, no download starts, and the prompt repeats.
C1_ZeroAndPastEndRejected ==
    [][(pc = "dataset" /\ TypedInt(line') /\ int(line') \in {0, Len(files) + 1})
        => /\ pc' = "dataset"
           /\ selected_file' = selected_file
           /\ trace' = trace
           /\ LastLine(console').kind = "invalid_selection"]_vars

\* C2: for a listing of n keys and an entered integer i in 1..n, the dataset
\* loop ends on that input with the i-th key of the listing selected, which
\* is the key printed next to i, and that key is the one the download gets.
C2_SelectsIthKey ==
    [][/\ (pc = "dataset" /\ TypedInt(line') /\ int(line') \in 1..Len(files))
            => /\ pc' = "download"
               /\ selected_file' = files[int(line')]
               /\ \E j \in DOMAIN console :
                    /\ console[j].kind = "dataset"
                    /\ console[j].num = int(line')
                    /\ console[j].text = selected_file'
       /\ (pc = "download" /\ pc' # "download" /\ int(line) \in 1..Len(files))
            => /\ LastLine(console').kind \in {"downloaded", "download_error"}
               /\ LastLine(console').text = files[int(line)]]_vars

C2_Witness ==
    /\ pc = "parse"
    /\ Len(files) = 2
    /\ line = <<"2">>
    /\ selected_file = files[2]
    /\ LastLine(console).text = files[2]

\* C3 as claimed: a failed download prints an error and ends the process
\* with exit code 1 before the parse, the prompts or visualize_data; exit
\* code 1 occurs on no other path; a run whose steps all succeed exits 0.
C3_ExitOneOnlyAfterFailedDownload ==
    /\ DownloadFailed =>
            /\ pc = "exited" /\ exitCode = 1
            /\ trace = SubSeq(StepOrder, 1, 3)
            /\ calls = 0
    /\ (pc = "exited" /\ exitCode = 1) => DownloadFailed
    /\ (pc = "exited" /\ trace = StepOrder /\ uncaught = "") => exitCode = 0

\* C3 as amended: a failed download prints an error and ends the process
\* with exit code 1 before the parse, the prompts or visualize_data; exit
\* code 1 occurs on this path and when an exception the driver does not
\* catch ends the process; a run whose steps all succeed exits 0.
C3_FailedDownloadExitsOne ==
    /\ DownloadFailed =>
            /\ pc = "exited" /\ exitCode = 1 /\ uncaught = ""
            /\ LastLine(console).kind = "download_error"
            /\ trace = SubSeq(StepOrder, 1, 3)
            /\ ~Printed("select_column") /\ ~Printed("prompt_column")
            /\ ~Printed("prompt_plot_type")
            /\ calls = 0
    /\ (pc = "exited" /\ exitCode = 1) => (DownloadFailed \/ uncaught # "")
    /\ (pc = "exited" /\ trace = StepOrder /\ uncaught = "") => exitCode = 0
    /\ (pc = "exited" /\ exitCode = 0) => (trace = StepOrder /\ uncaught = "")

C3_Witness ==
    /\ pc = "exited"
    /\ exitCode = 1
    /\ DownloadFailed
    /\ LastLine(trace) = "download"

\* C4: whenever visualize_data is called by the driver, the selected column
\* is a column of the parsed table and the plot type is one of the five
\* tags, so the call takes exactly one of the five draw branches.
C4_RenderInputsValid ==
    (pc = "render" \/ calls > 0) =>
        /\ selected_column \in Range(df.columns)
        /\ Cardinality({tag \in PlotTypes : plot_type = tag}) = 1
        /\ calls > 0 => branch \in {"scatter", "line", "hist", "bar", "pie"}

C4_Witness ==
    /\ calls = 1
    /\ branch = "hist"
    /\ line = <<"H", "i", "s", "t">>
    /\ Len(df.columns) = 2
    /\ selected_column = df.columns[2]

\* C5: at the plot-type prompt a token that equals one of the five tags up
\* to letter case is accepted on that read, and any other token, the empty
\* one included, prints the invalid-plot-type message and is followed by
\* another read; the only way out of the loop other than a valid token is
\* the end of input, and the selected file and column never change.
C5_PlotTypeLoop ==
    [][pc = "plot_loop" =>
        /\ selected_file' = selected_file
        /\ selected_column' = selected_column
        /\ IF NamesATag(line) THEN
                /\ pc' = "render"
                /\ SameIgnoringCase(line, plot_type')
                /\ console' = console
           ELSE
                /\ Len(console') = Len(console) + 2
                /\ console'[Len(console) + 1].kind = "invalid_plot_type"
                /\ console'[Len(console) + 2].kind = "prompt_plot_type"
                /\ \/ pc' = "plot_loop" /\ line' \in PlotTokens
                   \/ pc' = "exited" /\ line' = EndOfInput]_vars

C5_Witness ==
    /\ pc = "render"
    /\ line = <<"P", "I", "E">>
    /\ plot_type = pie
    /\ Count({"invalid_plot_type"}) = 2

\* C6: at the column prompt, for a table of m columns, an input that is not
\* an integer or is an integer outside 1..m (0 and the negative integers
\* included) prints the invalid-selection message and repeats the prompt
\* with no column selected; an integer j in 1..m selects the j-th column.
C6_ColumnOutsideRangeRejected ==
    [][(pc = "column" /\ line' # EndOfInput /\ console' # console) =>
        IF int_ok(line') /\ int(line') \in 1..Len(df.columns) THEN
            /\ pc' = "plot_type"
            /\ selected_column' = df.columns[int(line')]
        ELSE
            /\ pc' = "column"
            /\ selected_column' = selected_column
            /\ LastLine(console').kind = "invalid_selection"]_vars

\* C7: on a download failure the error message is written to the error
\* stream, not the output stream, before the process exits with code 1.
C7_ErrorOnStderr ==
    DownloadFailed =>
        /\ LastLine(console).kind = "download_error"
        /\ LastLine(console).stream = "stderr"
        /\ pc = "exited" /\ exitCode = 1

\* C8: once visualize_data has reached the save step, its figure is closed
\* when the call ends, whether plot.png was saved or the save failed.
C8_FigureReleased ==
    (calls > 0 /\ uncaught \in {"", "SaveError"}) => figures = 0

\* C9: over any sequence of visualize_data calls with one output directory,
\* every successful call writes output_dir/plot.png and nothing else, so
\* the directory never holds a second plot file, and the string it returns
\* encodes the bytes that call wrote.
C9_OverwritesPlotPng ==
    /\ [](DOMAIN fs \subseteq {PlotPath})
    /\ [][(calls' = calls + 1 /\ uncaught' = "") =>
            /\ DOMAIN fs' = {PlotPath}
            /\ fs'[PlotPath] \in Images
            /\ b64decode(image_data') = fs'[PlotPath]
            /\ Len(image_data') = 4 * ((Len(fs'[PlotPath]) + 2) \div 3)]_vars

C9_Witness ==
    /\ calls = MaxCalls
    /\ uncaught = ""
    /\ Count({"plot_saved"}) = MaxCalls
    /\ DOMAIN fs = {PlotPath}
    /\ fs[PlotPath] = <<137, 255>>
    /\ image_data = <<"i", "f", "8", "=">>

\* C10: the driver's steps happen in script order, none skipped, repeated
\* or reordered: the download is attempted once and only after a dataset
\* was selected, the column prompt comes only after a successful download
\* and parse, and visualize_data is called at most once, after both
\* selections; only the reads inside the selection loops repeat.
C10_LinearOrder ==
    /\ IsPrefix(trace, StepOrder)
    /\ Count({"downloaded", "download_error"}) =
            (IF Len(trace) >= 3 THEN 1 ELSE 0)
    /\ Printed("prompt_column") =>
            (Printed("downloaded") /\ Len(trace) >= 4 /\ ~DownloadFailed)
    /\ calls = (IF Len(trace) = 7 THEN 1 ELSE 0)
    /\ calls <= 1
    /\ pc \in {"render", "end"} => Len(trace) >= 6
    /\ (pc = "exited" /\ exitCode = 0) => trace = StepOrder
    /\ Count({"select_dataset"}) <= 1 /\ Count({"select_column"}) <= 1

C10_Witness ==
    /\ pc = "exited"
    /\ exitCode = 0
    /\ trace = StepOrder
    /\ InvalidCount = 2
    /\ calls = 1

=============================================================================
